---- MODULE Spec2Model ----
(***************************************************************************)
(* Model of async_web_scrapper.py: process_urls fans out one               *)
(* extract_page_info coroutine per URL over one aiohttp session whose      *)
(* TCPConnector is limited to max_concurrent connections, gathers the      *)
(* results in input order and returns them.                                *)
(*                                                                         *)
(* Python strings are sequences of one-character strings, so that strip,   *)
(* startswith, slicing and concatenation are computed, not assumed.  A     *)
(* response body is the sequence of tokens html.parser reads from it       *)
(* (start tags with their attributes, text, end tags); the empty body is   *)
(* the empty sequence.                                                     *)
(***************************************************************************)
EXTENDS Integers, Sequences, FiniteSets, TLC

(* ------------------------------------------------------------------ *)
(* Bounds of the model                                                 *)
(* ------------------------------------------------------------------ *)
MaxUrls == 3
MaxConcurrent == 2
MaxAnchors == 2
MaxArgs == 2
MaxLines == 2

(* ------------------------------------------------------------------ *)
(* Python values                                                       *)
(* ------------------------------------------------------------------ *)
\* Python's None and a present value, kept apart from every string and list.
None == [none |-> TRUE, val |-> <<>>]
Some(v) == [none |-> FALSE, val |-> v]

Min(a, b) == IF a <= b THEN a ELSE b

\* str.startswith(prefix)
startswith(s, prefix) ==
    /\ Len(s) >= Len(prefix)
    /\ SubSeq(s, 1, Len(prefix)) = prefix

\* The characters str.strip() removes.
Whitespace == {" ", "\t", "\n", "\r"}

RECURSIVE lstrip(_)
lstrip(s) == IF s # <<>> /\ Head(s) \in Whitespace THEN lstrip(Tail(s)) ELSE s

RECURSIVE rstrip(_)
rstrip(s) ==
    IF s # <<>> /\ s[Len(s)] \in Whitespace
    THEN rstrip(SubSeq(s, 1, Len(s) - 1))
    ELSE s

\* str.strip()
strip(s) == rstrip(lstrip(s))

\* str.find over a set of characters, from index start; 0 when none is found.
FindAny(s, chars, start) ==
    IF \E k \in start..Len(s) : s[k] \in chars
    THEN CHOOSE k \in start..Len(s) :
            /\ s[k] \in chars
            /\ \A m \in start..(k - 1) : s[m] \notin chars
    ELSE 0

Letters ==
    {"a", "b", "c", "d", "e", "f", "g", "h", "i", "j", "k", "l", "m",
     "n", "o", "p", "q", "r", "s", "t", "u", "v", "w", "x", "y", "z"}
SchemeChars == Letters \cup {"0", "1", "2", "3", "4", "5", "6", "7", "8", "9", "+", "-", "."}

\* urllib.parse.urlparse, its scheme and netloc fields (lower-case input).
urlparse(url) ==
    LET colon == FindAny(url, {":"}, 1)
        hasScheme ==
            /\ colon > 1
            /\ url[1] \in Letters
            /\ \A k \in 1..(colon - 1) : url[k] \in SchemeChars
        scheme == IF hasScheme THEN SubSeq(url, 1, colon - 1) ELSE <<>>
        rest == IF hasScheme THEN SubSeq(url, colon + 1, Len(url)) ELSE url
        delim == FindAny(rest, {"/", "?", "#"}, 3)
        netloc ==
            IF startswith(rest, <<"/", "/">>)
            THEN SubSeq(rest, 3, IF delim = 0 THEN Len(rest) ELSE delim - 1)
            ELSE <<>>
    IN  [scheme |-> scheme, netloc |-> netloc]

HTTP == <<"h", "t", "t", "p", ":", "/", "/">>
HTTPS == <<"h", "t", "t", "p", "s", ":", "/", "/">>

(* ------------------------------------------------------------------ *)
(* HTML tokens and the BeautifulSoup queries the extractor makes       *)
(* ------------------------------------------------------------------ *)
StartTag(tag, attrs) == [k |-> "start", tag |-> tag, attrs |-> attrs, data |-> <<>>]
EndTag(tag) == [k |-> "end", tag |-> tag, attrs |-> <<>>, data |-> <<>>]
Text(data) == [k |-> "text", tag |-> "", attrs |-> <<>>, data |-> data]

\* Indexes of the start tags named tag, in document order.
RECURSIVE TagIndexes(_, _, _)
TagIndexes(html, tag, from) ==
    IF from > Len(html) THEN <<>>
    ELSE IF html[from].k = "start" /\ html[from].tag = tag
         THEN <<from>> \o TagIndexes(html, tag, from + 1)
         ELSE TagIndexes(html, tag, from + 1)

\* Tag.text: the text inside the element opened at index open, concatenated.
RECURSIVE TextUntilEnd(_, _, _)
TextUntilEnd(html, tag, from) ==
    IF from > Len(html) THEN <<>>
    ELSE IF html[from].k = "end" /\ html[from].tag = tag THEN <<>>
    ELSE IF html[from].k = "text"
         THEN html[from].data \o TextUntilEnd(html, tag, from + 1)
         ELSE TextUntilEnd(html, tag, from + 1)

\* soup.title: the first title element (None when there is none), as its .text
soup_title(html) ==
    LET found == TagIndexes(html, "title", 1)
    IN  IF found = <<>> THEN None ELSE Some(TextUntilEnd(html, "title", found[1] + 1))

\* soup.find('meta', attrs={'name': 'description'}): the tag's attributes, or None
soup_find_meta_description(html) ==
    LET metas == TagIndexes(html, "meta", 1)
        hit == SelectSeq(metas, LAMBDA n :
                   /\ "name" \in DOMAIN html[n].attrs
                   /\ html[n].attrs["name"] =
                        <<"d", "e", "s", "c", "r", "i", "p", "t", "i", "o", "n">>)
    IN  IF hit = <<>> THEN None ELSE Some(html[hit[1]].attrs)

\* soup.find_all('a', href=True): the href of every anchor that has one
soup_find_all_a_href(html) ==
    LET anchors == SelectSeq(TagIndexes(html, "a", 1),
                             LAMBDA n : "href" \in DOMAIN html[n].attrs)
    IN  [n \in 1..Len(anchors) |-> html[anchors[n]].attrs["href"]]

(* ------------------------------------------------------------------ *)
(* fetch_url and extract_page_info                                     *)
(* ------------------------------------------------------------------ *)
\* How session.get(url, timeout=timeout) ends for fetch_url: with a response
\* (status, body), with a raised client error, or with a raised TimeoutError.
Response(status, body) == [kind |-> "response", status |-> status, body |-> body]
ClientError == [kind |-> "error", status |-> 0, body |-> <<>>]
TimeoutError == [kind |-> "timeout", status |-> 0, body |-> <<>>]

\* The total time budget of one fetch (fetch_url's timeout parameter).
timeout == 30
StatusOK == 200

\* fetch_url without its status check: every response's body is returned.
fetch_url_any_status(outcome) ==
    IF outcome.kind = "response" THEN Some(outcome.body) ELSE None

\* fetch_url: the body on status 200, None on any other status or exception.
fetch_url(outcome) ==
    IF outcome.kind = "response"
    THEN IF outcome.status = StatusOK THEN Some(outcome.body) ELSE None
    ELSE None

NoTitle == <<"N", "o", " ", "t", "i", "t", "l", "e">>
NoDescription == <<"N", "o", " ", "d", "e", "s", "c", "r", "i", "p", "t", "i", "o", "n">>

\* title = soup.title.text.strip() if soup.title else 'No title'
page_title(html) ==
    LET t == soup_title(html)
    IN  IF t.none THEN NoTitle ELSE strip(t.val)

\* description = description_tag.get('content', '').strip() if description_tag
\*               else 'No description'
page_description(html) ==
    LET description_tag == soup_find_meta_description(html)
    IN  IF description_tag.none THEN NoDescription
        ELSE strip(IF "content" \in DOMAIN description_tag.val
                   THEN description_tag.val["content"]
                   ELSE <<>>)

\* base_url = f"{urlparse(url).scheme}://{urlparse(url).netloc}"
base_url(url) == urlparse(url).scheme \o <<":", "/", "/">> \o urlparse(url).netloc

\* resolve_href that leaves relative hrefs as they are.
resolve_href_unresolved(href, base) == href

\* if href.startswith('/'): href = base_url + href
resolve_href(href, base) == IF startswith(href, <<"/">>) THEN base \o href ELSE href

\* if href.startswith(('http://', 'https://'))
is_absolute_http(href) == startswith(href, HTTP) \/ startswith(href, HTTPS)

\* The loop over soup.find_all('a', href=True), appending to links.
RECURSIVE collect_links(_, _, _)
collect_links(hrefs, base, links) ==
    IF hrefs = <<>> THEN links
    ELSE LET href == resolve_href(Head(hrefs), base)
         IN  collect_links(Tail(hrefs), base,
                           IF is_absolute_http(href) THEN Append(links, href) ELSE links)

\* The number of links a result keeps.
MaxLinks == 5

\* first_links without the slice: every link is kept.
first_links_all(links) == links

\* links[:5]
first_links(links) == SubSeq(links, 1, Min(MaxLinks, Len(links)))

\* The record extract_page_info returns for url when fetch_url returned html.
extract_page_info(url, html) ==
    IF html.none \/ html.val = <<>>
    THEN [url |-> url, title |-> None, description |-> None, links |-> <<>>]
    ELSE [url |-> url,
          title |-> Some(page_title(html.val)),
          description |-> Some(page_description(html.val)),
          links |-> first_links(collect_links(soup_find_all_a_href(html.val),
                                              base_url(url), <<>>))]

\* Python truthiness of task_id (None or an int).
truthy_int(x) == ~x.none /\ x.val # 0

\* An extract_page_info that advances the progress task without a guard.
progress_advance_unguarded(has_progress, tid) == 1

\* `if progress and task_id: progress.update(task_id, advance=1)`: the amount
\* by which the progress task advances; has_progress says progress is not None.
progress_advance(has_progress, tid) ==
    IF has_progress /\ truthy_int(tid) THEN 1 ELSE 0

\* An except clause that names aiohttp's ClientError only.
except_ClientError(kind) == kind = "error"

\* `except Exception as e` of fetch_url: aiohttp's ClientError and asyncio's
\* TimeoutError are both subclasses of Exception, so both are caught.
except_Exception(kind) == kind \in {"error", "timeout"}

\* fetch_url lets the exception of session.get through.
fetch_url_raises(outcome) ==
    outcome.kind # "response" /\ ~except_Exception(outcome.kind)

\* extract_page_info(session, url, progress, task_id) when session.get ends
\* with fetched: it raises what fetch_url lets through, it raises when it
\* calls update on a progress that is None, and otherwise it returns its
\* record after advancing the progress task.
extract_page_info_call(url, fetched, has_progress, tid) ==
    LET advance == progress_advance(has_progress, tid)
        raised == \/ fetch_url_raises(fetched)
                  \/ advance > 0 /\ ~has_progress
    IN  [raised |-> raised,
         value |-> IF raised THEN None
                   ELSE Some(extract_page_info(url, fetch_url(fetched))),
         advance |-> IF raised THEN 0 ELSE advance]

\* rich's Progress: a new Progress numbers its tasks from TaskID 0; add_task
\* returns the id of the task it adds.
add_task(task_index) == task_index

(* ------------------------------------------------------------------ *)
(* display_results: rich's console.print and its markup               *)
(* ------------------------------------------------------------------ *)
\* The number of consecutive backslashes that end at index k of text.
RECURSIVE Backslashes(_, _)
Backslashes(text, k) ==
    IF k >= 1 /\ text[k] = "\\" THEN 1 + Backslashes(text, k - 1) ELSE 0

\* The characters a markup tag of rich may start with.
TagStart == Letters \cup {"#", "/", "@"}

\* Remove the topmost entry of the stack of open tags that equals style.
pop_style(open, style) ==
    LET n == CHOOSE m \in 1..Len(open) :
                 open[m] = style /\ \A q \in (m + 1)..Len(open) : open[q] # style
    IN  SubSeq(open, 1, n - 1) \o SubSeq(open, n + 1, Len(open))

\* console.print renders its string as markup: "[name]" opens a style,
\* "[/name]" closes the topmost open tag of that name and "[/]" the last one
\* opened; a closing tag that has nothing to close raises MarkupError.  A tag
\* runs from "[" to the first "]" with no "[" between, starts with a
\* lower-case letter, "#", "/" or "@", and is plain text when an odd number
\* of backslashes precedes it.  markup_raises scans text from index k with
\* the stack of open tags.
RECURSIVE markup_raises(_, _, _)
markup_raises(text, k, open) ==
    IF k > Len(text) THEN FALSE
    ELSE
      LET j == IF text[k] = "[" THEN FindAny(text, {"[", "]"}, k + 1) ELSE 0
          is_tag == j > k + 1 /\ text[j] = "]" /\ text[k + 1] \in TagStart
          name == SubSeq(text, k + 1, j - 1)
          style == strip(Tail(name))
      IN  IF ~is_tag THEN markup_raises(text, k + 1, open)
          ELSE IF Backslashes(text, k - 1) % 2 = 1 THEN markup_raises(text, j + 1, open)
          ELSE IF Head(name) # "/"
               THEN markup_raises(text, j + 1, Append(open, strip(name)))
          ELSE IF style = <<>>
               THEN open = <<>>
                    \/ markup_raises(text, j + 1, SubSeq(open, 1, Len(open) - 1))
          ELSE (\A n \in 1..Len(open) : open[n] # style)
               \/ markup_raises(text, j + 1, pop_style(open, style))

\* console.print(text) raises.
console_print_raises(text) == markup_raises(text, 1, <<>>)

\* The literal parts of the strings display_results prints.
UrlLabel ==
    <<"\n", "[", "b", "o", "l", "d", " ", "c", "y", "a", "n", "]", "U", "R", "L", ":", "[",
      "/", "b", "o", "l", "d", " ", "c", "y", "a", "n", "]", " ">>
TitleLabel ==
    <<"[", "b", "o", "l", "d", " ", "g", "r", "e", "e", "n", "]", "T", "i", "t", "l", "e",
      ":", "[", "/", "b", "o", "l", "d", " ", "g", "r", "e", "e", "n", "]", " ">>
DescriptionLabel ==
    <<"[", "b", "o", "l", "d", " ", "y", "e", "l", "l", "o", "w", "]", "D", "e", "s", "c",
      "r", "i", "p", "t", "i", "o", "n", ":", "[", "/", "b", "o", "l", "d", " ", "y", "e",
      "l", "l", "o", "w", "]", " ">>
Ellipsis == <<".", ".", ".">>
TopLinks ==
    <<"[", "b", "o", "l", "d", " ", "m", "a", "g", "e", "n", "t", "a", "]", "T", "o", "p",
      " ", "L", "i", "n", "k", "s", ":", "[", "/", "b", "o", "l", "d", " ", "m", "a", "g",
      "e", "n", "t", "a", "]">>
Rule == <<"-", "-", "-">>
Digits == <<"1", "2", "3", "4", "5">>

\* result['description'][:100]
DescriptionShown == 100

\* The strings display_results prints for a record whose description is a str.
record_lines(result) ==
    LET d == result.description.val
    IN  <<UrlLabel \o result.url,
          TitleLabel \o result.title.val,
          DescriptionLabel \o SubSeq(d, 1, Min(DescriptionShown, Len(d))) \o Ellipsis>>
        \o (IF result.links # <<>>
            THEN <<TopLinks>>
                 \o [n \in 1..Len(result.links) |->
                        <<" ", " ", Digits[n], ".", " ">> \o result.links[n]]
            ELSE <<>>)
        \o <<Rule>>

\* `if result['title']:` is true of a title that is neither None nor "".
truthy_str(x) == ~x.none /\ x.val # <<>>

\* Printing a record raises: slicing a description that is None is a
\* TypeError, and console.print raises on markup it cannot render.
print_record_raises(result) ==
    \/ result.description.none
    \/ \E n \in DOMAIN record_lines(result) :
          console_print_raises(record_lines(result)[n])

\* display_results(results) from record n on: the indexes of the records it
\* printed, and whether it raised.
RECURSIVE display_from(_, _, _)
display_from(rs, n, printed) ==
    IF n > Len(rs) THEN [raised |-> FALSE, printed |-> printed]
    ELSE IF ~truthy_str(rs[n].title) THEN display_from(rs, n + 1, printed)
    ELSE IF print_record_raises(rs[n]) THEN [raised |-> TRUE, printed |-> printed]
    ELSE display_from(rs, n + 1, Append(printed, n))

display_results(rs) == display_from(rs, 1, <<>>)

(* ------------------------------------------------------------------ *)
(* The URLs, pages and responses the model draws its inputs from       *)
(* ------------------------------------------------------------------ *)
SiteUrl == HTTPS \o <<"s", "i", "t", "e", ".", "c", "o", "m">>
DocUrl == HTTP \o <<"a", ".", "o", "r", "g", "/", "p", "?", "q", "=", "1">>
DownUrl == HTTP \o <<"d", ".", "i", "o">>
RefusedUrl == HTTP \o <<"r", ".", "i", "o">>
SlowUrl == HTTP \o <<"s", ".", "i", "o">>

Description == <<"d", "e", "s", "c", "r", "i", "p", "t", "i", "o", "n">>

Anchor(href) == <<StartTag("a", "href" :> href), Text(<<"x">>), EndTag("a")>>
AnchorNoHref == <<StartTag("a", "id" :> <<"t">>), Text(<<"x">>), EndTag("a")>>

HrefAbout == <<"/", "a", "b", "o", "u", "t">>
HrefXPage == HTTPS \o <<"x", ".", "c", "o", "m", "/", "p", "a", "g", "e">>
HrefMailto == <<"m", "a", "i", "l", "t", "o", ":", "a", "@", "b", ".", "c", "o", "m">>
HrefFrag == <<"#", "f", "r", "a", "g">>
HrefRelative == <<"a", "b", "o", "u", "t", ".", "h", "t", "m", "l">>
HrefPlain == HTTP \o <<"y", ".", "o", "r", "g">>
HrefUpper == <<"H", "T", "T", "P", ":", "/", "/", "z", ".", "o", "r", "g">>
Hrefs == {HrefAbout, HrefXPage, HrefMailto, HrefFrag, HrefRelative, HrefPlain, HrefUpper, <<>>}

TitleTag(text) == <<StartTag("title", <<>>), Text(text), EndTag("title")>>
MetaTag(name, content) == <<StartTag("meta", ("name" :> name) @@ ("content" :> content))>>

\* The ways a page states, or fails to state, its title.
TitleOptions ==
    {<<>>,
     TitleTag(<<" ", "S", "i", "t", "e", "\n">>),
     <<StartTag("title", <<>>), EndTag("title")>>,
     TitleTag(<<"A">>) \o TitleTag(<<"B">>),
     <<StartTag("title", <<>>), Text(<<"a", " ">>), StartTag("b", <<>>), Text(<<"b">>)>>}

\* The ways a page states, or fails to state, its description.
MetaOptions ==
    {<<>>,
     MetaTag(Description, <<"\t", "a", "b", "o", "u", "t", " ", "u", "s", " ">>),
     <<StartTag("meta", "name" :> Description)>>,
     MetaTag(<<"k", "e", "y", "w", "o", "r", "d", "s">>, <<"k">>) \o MetaTag(Description, <<"D">>) \o MetaTag(Description, <<"E">>),
     <<StartTag("meta", "content" :> <<"k">>)>>}

\* The page of the link-filtering example: /about, https://x.com/page,
\* mailto:a@b.com and #frag, in that order.
ExampleAnchors == Anchor(HrefAbout) \o Anchor(HrefXPage) \o Anchor(HrefMailto) \o Anchor(HrefFrag)
ExamplePage == TitleTag(<<" ", "S", "i", "t", "e", "\n">>) \o MetaTag(Description, <<"\t", "a", "b", "o", "u", "t", " ", "u", "s", " ">>) \o ExampleAnchors

\* Eight links that pass the filter, in document order.
EightHrefs ==
    <<<<"/", "a">>, HrefXPage, <<"/", "b", "?", "c">>, HrefPlain, <<"/", "/", "c", "d", "n", ".", "i", "o", "/", "x">>, HTTP \o <<"m", ".", "i", "o">>, HrefAbout, HTTPS \o <<"n", ".", "i", "o", "/">>>>
RECURSIVE Anchors(_)
Anchors(hrefs) == IF hrefs = <<>> THEN <<>> ELSE Anchor(Head(hrefs)) \o Anchors(Tail(hrefs))
EightLinkPage == TitleTag(<<"A">>) \o Anchors(EightHrefs)

\* A mixed page: six links pass the filter, others do not, one anchor has no href.
MixedPage ==
    Anchor(HrefFrag) \o Anchors(SubSeq(EightHrefs, 1, 3)) \o AnchorNoHref
    \o Anchor(HrefMailto) \o Anchors(SubSeq(EightHrefs, 4, 6)) \o Anchor(HrefRelative)

ErrorPage == TitleTag(<<"E", "r", "r", "o", "r">>) \o Anchor(HrefPlain)

\* A page whose title holds square brackets: <title>a[/b]</title>.
BracketPage == TitleTag(<<"a", "[", "/", "b", "]">>) \o Anchor(HrefXPage)

AnchorOptions == {Anchor(h) : h \in Hrefs} \cup {AnchorNoHref}
RECURSIVE Flatten(_)
Flatten(parts) == IF parts = <<>> THEN <<>> ELSE Head(parts) \o Flatten(Tail(parts))
AnchorLists == {Flatten(l) : l \in UNION {[1..n -> AnchorOptions] : n \in 0..MaxAnchors}}

\* The bodies a status-200 response may carry; <<>> is the empty body.
Bodies ==
    {t \o m \o ExampleAnchors : t \in TitleOptions, m \in MetaOptions}
    \cup {TitleTag(<<"A">>) \o l : l \in AnchorLists}
    \cup {<<>>, <<Text(<<" ", "\n">>)>>, <<Text(<<"b">>)>>, ExamplePage, EightLinkPage, MixedPage,
          BracketPage}

\* What the server of a URL does with a GET: answer (Response), refuse
\* (ClientError) or not answer within the time budget ("hang").
Hang == [kind |-> "hang", status |-> 0, body |-> <<>>]
PageUrls == {SiteUrl, DocUrl}
PageResponses ==
    {Response(StatusOK, b) : b \in Bodies}
    \cup {Response(404, ErrorPage), Response(500, <<>>), ClientError, Hang}

\* The web the batch model fetches from.
URLS == {SiteUrl, DownUrl, RefusedUrl, SlowUrl}
Web ==
    (SiteUrl :> Response(StatusOK, ExamplePage))
    @@ (DownUrl :> Response(500, ErrorPage))
    @@ (RefusedUrl :> ClientError)
    @@ (SlowUrl :> Hang)

(* ------------------------------------------------------------------ *)
(* State                                                               *)
(* ------------------------------------------------------------------ *)
VARIABLES
    urls,            \* process_urls' argument: the URL list
    max_concurrent,  \* process_urls' argument: the connector's limit
    web,             \* what the server of each URL does (fixed during a behaviour)
    session,         \* "none", "open" (inside `async with ClientSession`), "closed"
    task_id,         \* the TaskID progress.add_task returned, None before
    completed,       \* how far the progress task has been advanced
    pc,              \* per entry: "created", "waiting", "inflight", "done"
    attempts,        \* per entry: the session.get calls made for it
    outcome,         \* per entry: how its fetch ended ("pending" before)
    task_result,     \* per entry: what its extract_page_info coroutine returned
    order,           \* the entries in the order their coroutines finished
    results,         \* what process_urls returned, None before
    now,             \* time elapsed since the fetches were started
    run,             \* 1 for the first invocation of process_urls, 2 for the second
    first_results,   \* what the first invocation returned
    direct,          \* a call of extract_page_info made outside process_urls, or None
    connector,       \* the TCPConnector of process_urls, or None before it is created
    shown,           \* what display_results did with the results, or None before
    cli              \* the command line main was started with and what it did with it, or None

vars == <<urls, max_concurrent, web, session, task_id, completed, pc, attempts,
          outcome, task_result, order, results, now, run, first_results, direct,
          connector, shown, cli>>

\* The state of process_urls and of the run of main around it.
batch_vars == <<urls, max_concurrent, web, session, task_id, completed, pc, attempts,
                outcome, task_result, order, results, now, run, first_results,
                connector, shown, cli>>

N == Len(urls)
Entries == DOMAIN pc

\* aiohttp.TCPConnector(limit=limit): a new pool, nothing handed out.
TCPConnector(limit) == [limit |-> limit, acquired |-> {}, closed |-> FALSE]

\* The connector hands a connection to the request of entry i.
connector_acquire(c, i) == [c EXCEPT !.acquired = @ \cup {i}]

\* A connector that never gets a connection back.
connector_release_never(c, S) == c

\* The requests of the entries of S end: leaving `async with session.get(...)`,
\* by return or by exception, gives back the connection the request held.
connector_release(c, S) == [c EXCEPT !.acquired = @ \ S]

\* Leaving `async with aiohttp.ClientSession(connector=connector)` closes the
\* session and with it the connector it owns: close() closes and forgets
\* every connection.
connector_close(c) == [c EXCEPT !.acquired = {}, !.closed = TRUE]

\* The connections the connector has handed out and not got back.
InFlight == IF connector.none THEN 0 ELSE Cardinality(connector.val.acquired)

\* The limit of the connector in use.
Limit == connector.val.limit

Idle ==
    /\ connector = None
    /\ shown = None
    /\ session = "none"
    /\ task_id = None
    /\ completed = 0
    /\ pc = <<>>
    /\ attempts = <<>>
    /\ outcome = <<>>
    /\ task_result = <<>>
    /\ order = <<>>
    /\ results = None
    /\ now = 0

\* Batches of up to MaxUrls URLs (duplicates allowed) over the model's web.
Init ==
    /\ urls \in UNION {[1..n -> URLS] : n \in 1..MaxUrls}
    /\ max_concurrent \in 0..MaxConcurrent
    /\ web = Web
    /\ run = 1
    /\ first_results = None
    /\ Idle
    /\ direct = None
    /\ cli = None

\* One URL, requested once or twice, with any page or failure behind it.
InitPages ==
    /\ \E u \in PageUrls, r \in PageResponses :
          /\ urls \in {<<u>>, <<u, u>>}
          /\ web = (u :> r)
    /\ max_concurrent \in 1..MaxConcurrent
    /\ run = 1
    /\ first_results = None
    /\ Idle
    /\ direct = None
    /\ cli = None

(* ------------------------------------------------------------------ *)
(* process_urls                                                        *)
(* ------------------------------------------------------------------ *)
\* Lines 72-84: the connector and the session are created, the progress task
\* is added to a new Progress, one extract_page_info coroutine is created per
\* URL.  Nothing suspends in between.
Enter ==
    /\ session = "none"
    /\ connector' = Some(TCPConnector(max_concurrent))
    /\ session' = "open"
    /\ task_id' = Some(add_task(0))
    /\ completed' = 0
    /\ pc' = [i \in 1..N |-> "created"]
    /\ attempts' = [i \in 1..N |-> 0]
    /\ outcome' = [i \in 1..N |-> "pending"]
    /\ task_result' = [i \in 1..N |-> None]
    /\ order' = <<>>
    /\ results' = None
    /\ now' = 0
    /\ UNCHANGED <<urls, max_concurrent, web, run, first_results>>

\* A fetch_url that issues its request twice.
count_attempt_twice(att, i) == [att EXCEPT ![i] = @ + 2]

\* fetch_url calls session.get once for its URL.
count_attempt(att, i) == [att EXCEPT ![i] = @ + 1]

\* A connector that never makes a request wait.
connector_available_always(limit, acquired) == TRUE

\* TCPConnector(limit=limit): a connection is available while fewer than
\* limit are handed out; limit 0 means no limit.
connector_available(limit, acquired) == limit = 0 \/ acquired < limit

\* gather starts the coroutines in list order; each runs to its session.get,
\* which starts the fetch's timer and asks the connector for a connection:
\* it gets one at once when one is available and waits otherwise.
Call(i) ==
    /\ session = "open"
    /\ pc[i] = "created"
    /\ \A j \in 1..(i - 1) : pc[j] # "created"
    /\ IF connector_available(Limit, InFlight)
       THEN /\ pc' = [pc EXCEPT ![i] = "inflight"]
            /\ connector' = Some(connector_acquire(connector.val, i))
       ELSE /\ pc' = [pc EXCEPT ![i] = "waiting"]
            /\ UNCHANGED connector
    /\ attempts' = count_attempt(attempts, i)
    /\ UNCHANGED <<urls, max_concurrent, web, session, task_id, completed, outcome,
                   task_result, order, results, now, run, first_results>>

\* A released connection goes to a waiting request whose time budget is not
\* used up: the connector wakes the oldest waiter of a host it picks at random.
Acquire(i) ==
    /\ session = "open"
    /\ pc[i] = "waiting"
    /\ \A j \in 1..(i - 1) : pc[j] = "waiting" => urls[j] # urls[i]
    /\ now < timeout
    /\ connector_available(Limit, InFlight)
    /\ pc' = [pc EXCEPT ![i] = "inflight"]
    /\ connector' = Some(connector_acquire(connector.val, i))
    /\ UNCHANGED <<urls, max_concurrent, web, session, task_id, completed, attempts,
                   outcome, task_result, order, results, now, run, first_results>>

\* The entries of S in index order.
Ascending(S) ==
    [n \in 1..Cardinality(S) |->
        CHOOSE x \in S : Cardinality({y \in S : y < x}) = n - 1]

\* session.get of each entry of S ends with fetched (a response or an
\* exception): fetch_url returns, extract_page_info builds the record,
\* advances the progress task and returns; the connection, if one was held,
\* is released.
FinishEach(S, fetched) ==
    LET call(j) == extract_page_info_call(urls[j], fetched, TRUE, task_id)
        ended == Ascending(S)
    IN  /\ task_result' = [j \in DOMAIN task_result |->
                              IF j \in S THEN call(j).value ELSE task_result[j]]
        /\ completed' = completed + Len(SelectSeq(ended, LAMBDA j : call(j).advance > 0))
        /\ outcome' = [j \in DOMAIN outcome |->
                          IF j \notin S THEN outcome[j]
                          ELSE IF call(j).raised THEN "raised"
                          ELSE IF fetched.kind = "response"
                               THEN IF fetched.status = StatusOK THEN "ok" ELSE "status"
                               ELSE fetched.kind]
        /\ pc' = [j \in DOMAIN pc |-> IF j \in S THEN "done" ELSE pc[j]]
        /\ order' = order \o ended
        /\ connector' = Some(connector_release(connector.val, S))
        /\ UNCHANGED <<urls, max_concurrent, web, session, task_id, attempts, results,
                       now, run, first_results>>

\* session.get of entry i ends with fetched.
Finish(i, fetched) == FinishEach({i}, fetched)

\* The server answers or refuses the request in flight.
Respond(i) ==
    /\ session = "open"
    /\ pc[i] = "inflight"
    /\ web[urls[i]].kind # "hang"
    /\ now < timeout
    /\ Finish(i, web[urls[i]])

\* Nothing can move before time passes: every coroutine has made its call,
\* every request in flight is to a server that does not answer, and every
\* waiting request has no connection to take.
Quiescent ==
    \A i \in Entries :
        /\ pc[i] # "created"
        /\ pc[i] = "inflight" => web[urls[i]].kind = "hang"
        /\ pc[i] = "waiting" => ~connector_available(Limit, InFlight)

\* The time budget of the fetches, all started together, runs out.  The budget
\* is session.get's total timeout: it runs from the call and covers the wait
\* for a connection too.  A server of the model answers at once or not within
\* the budget, so time passes only when nothing else can move.
TimePasses ==
    /\ session = "open"
    /\ now = 0
    /\ Quiescent
    /\ \E i \in Entries : pc[i] # "done"
    /\ now' = timeout
    /\ UNCHANGED <<urls, max_concurrent, web, session, task_id, completed, pc, attempts,
                   outcome, task_result, order, results, run, first_results,
                   connector>>

\* One timer for the whole batch: its expiry ends every unfinished fetch.
timer_expiry_shared(i, p) == {j \in DOMAIN p : p[j] \in {"waiting", "inflight"}}

\* session.get(url, timeout=timeout) gives each fetch a timer of its own: the
\* expiry of entry i's timer ends entry i's session.get and no other.
timer_expiry(i, p) == {i}

\* The timer of entry i fires: its session.get raises TimeoutError, whether it
\* holds a connection or still waits for one.
Timeout(i) ==
    /\ session = "open"
    /\ pc[i] \in {"waiting", "inflight"}
    /\ now >= timeout
    /\ FinishEach(timer_expiry(i, pc), TimeoutError)

\* asyncio.gather in the order the coroutines finished.
gather_completion_order(coro_results, finished) ==
    [n \in 1..Len(finished) |-> coro_results[finished[n]].val]

\* asyncio.gather(*tasks): the coroutines' results in the order of the tasks.
gather(coro_results, finished) ==
    [i \in 1..Len(coro_results) |-> coro_results[i].val]

\* gather is called without return_exceptions: an exception raised by one
\* coroutine is raised by the await of gather.
gather_raises == \E i \in Entries : outcome[i] = "raised"

\* Lines 85-87: gather has every result; process_urls returns them and the
\* session is closed on the way out.
Return ==
    /\ session = "open"
    /\ \A i \in Entries : pc[i] = "done"
    /\ results' = IF gather_raises THEN None ELSE Some(gather(task_result, order))
    /\ session' = "closed"
    /\ connector' = Some(connector_close(connector.val))
    /\ UNCHANGED <<urls, max_concurrent, web, task_id, completed, pc, attempts,
                   outcome, task_result, order, now, run, first_results>>

\* Line 138: main hands the list process_urls returned to display_results.
Display ==
    /\ session = "closed"
    /\ ~results.none
    /\ shown = None
    /\ shown' = Some(display_results(results.val))
    /\ UNCHANGED <<urls, max_concurrent, web, session, task_id, completed, pc, attempts,
                   outcome, task_result, order, results, now, run, first_results,
                   direct, connector, cli>>

\* process_urls is invoked a second time on the same URLs against the same
\* web, with any limit.
Rerun ==
    /\ session = "closed"
    /\ shown # None \/ results.none
    /\ shown' = None
    /\ run = 1
    /\ run' = 2
    /\ first_results' = results
    /\ max_concurrent' \in 0..MaxConcurrent
    /\ connector' = None
    /\ session' = "none"
    /\ task_id' = None
    /\ completed' = 0
    /\ pc' = <<>>
    /\ attempts' = <<>>
    /\ outcome' = <<>>
    /\ task_result' = <<>>
    /\ order' = <<>>
    /\ results' = None
    /\ now' = 0
    /\ UNCHANGED <<urls, web, direct, cli>>

Next ==
    \/ /\ \/ Enter
          \/ \E i \in Entries : Call(i)
          \/ \E i \in Entries : Acquire(i)
          \/ \E i \in Entries : Respond(i)
          \/ TimePasses
          \/ \E i \in Entries : Timeout(i)
          \/ Return
       /\ UNCHANGED <<direct, shown, cli>>
    \/ Display
    \/ Rerun

Spec == Init /\ [][Next]_vars

SpecPages == InitPages /\ [][Next]_vars

\* The event loop runs every callback that is ready and every timer that is
\* due: a step that stays possible is eventually taken.
SpecFair == Init /\ [][Next]_vars /\ WF_vars(Next)

(* ------------------------------------------------------------------ *)
(* extract_page_info called on its own                                 *)
(* ------------------------------------------------------------------ *)
\* The ways session.get may end for a page of the model.
FetchOutcomes ==
    {Response(StatusOK, b) : b \in Bodies}
    \cup {Response(404, ErrorPage), Response(500, <<>>), ClientError, TimeoutError}

\* The task_id arguments a caller may pass: None, the first TaskID, a later one.
TaskIds == {None, Some(0), Some(1)}

\* A caller is about to call extract_page_info on a URL of its own, with a
\* progress reporter or without one (progress=None).
InitDirect ==
    /\ direct \in {Some([url |-> u, fetched |-> f, has_progress |-> p, tid |-> t,
                         ret |-> None]) :
                       u \in PageUrls, f \in FetchOutcomes, p \in BOOLEAN, t \in TaskIds}
    /\ urls = <<>>
    /\ max_concurrent = 1
    /\ web = Web
    /\ run = 1
    /\ first_results = None
    /\ Idle
    /\ cli = None

\* The call runs to its end: session.get ends with direct's fetched.
DirectCall ==
    /\ ~direct.none
    /\ direct.val.ret.none
    /\ direct' = Some([direct.val EXCEPT
                          !.ret = Some(extract_page_info_call(
                                           direct.val.url, direct.val.fetched,
                                           direct.val.has_progress, direct.val.tid))])
    /\ UNCHANGED batch_vars

NextDirect == DirectCall

SpecDirect == InitDirect /\ [][NextDirect]_vars

(* ------------------------------------------------------------------ *)
(* main: the URL list handed to process_urls                           *)
(* ------------------------------------------------------------------ *)
\* The URLs main uses when it is given none.
DefaultUrls ==
    <<
     <<"h", "t", "t", "p", "s", ":", "/", "/", "p", "y", "t", "h", "o", "n", ".", "o", "r",
       "g">>,
     <<"h", "t", "t", "p", "s", ":", "/", "/", "d", "o", "c", "s", ".", "p", "y", "t", "h",
       "o", "n", ".", "o", "r", "g", "/", "3", "/", "l", "i", "b", "r", "a", "r", "y", "/",
       "a", "s", "y", "n", "c", "i", "o", ".", "h", "t", "m", "l">>,
     <<"h", "t", "t", "p", "s", ":", "/", "/", "r", "e", "a", "l", "p", "y", "t", "h", "o",
       "n", ".", "c", "o", "m", "/", "a", "s", "y", "n", "c", "-", "i", "o", "-", "p", "y",
       "t", "h", "o", "n", "/">>,
     <<"h", "t", "t", "p", "s", ":", "/", "/", "e", "n", ".", "w", "i", "k", "i", "p", "e",
       "d", "i", "a", ".", "o", "r", "g", "/", "w", "i", "k", "i", "/", "P", "y", "t", "h",
       "o", "n", "_", "(", "p", "r", "o", "g", "r", "a", "m", "m", "i", "n", "g", "_", "l",
       "a", "n", "g", "u", "a", "g", "e", ")">>,
     <<"h", "t", "t", "p", "s", ":", "/", "/", "g", "i", "t", "h", "u", "b", ".", "c", "o",
       "m", "/", "p", "y", "t", "h", "o", "n", "/", "c", "p", "y", "t", "h", "o", "n">>
    >>

\* A list comprehension that keeps the non-blank lines as they are.
file_urls_unstripped(lines) == SelectSeq(lines, LAMBDA line : strip(line) # <<>>)

\* [line.strip() for line in f if line.strip()]
RECURSIVE file_urls(_)
file_urls(lines) ==
    IF lines = <<>> THEN <<>>
    ELSE IF strip(Head(lines)) # <<>>
         THEN <<strip(Head(lines))>> \o file_urls(Tail(lines))
         ELSE file_urls(Tail(lines))

\* Lines 112-131 of main for parsed arguments args: urls starts as the
\* positional URLs; when --file is given, the lines read from it are
\* appended, or, when opening or reading it raises, the error is printed and
\* urls is left as it was; an empty urls is replaced by the default list.
select_urls(args) ==
    LET read_fails == args.file.given /\ ~args.file.readable
        extended == IF args.file.given /\ args.file.readable
                    THEN args.urls \o file_urls(args.file.lines)
                    ELSE args.urls
    IN  [urls |-> IF extended = <<>> THEN DefaultUrls ELSE extended,
         reported |-> read_fails]

\* The lines a file of the model may hold, as iterating over it yields them.
FileLines ==
    {<<"\n">>,
     <<" ", "\t", "\n">>,
     DownUrl \o <<"\n">>,
     <<" ", " ">> \o SiteUrl \o <<" ", "\r", "\n">>,
     <<"\t">> \o RefusedUrl}

\* The command lines of the model: up to MaxArgs positional URLs, no --file
\* or a --file of up to MaxLines lines that can or cannot be read, and a
\* value of --concurrent.
CommandLines ==
    {[urls |-> u, file |-> f, concurrent |-> c] :
        u \in UNION {[1..n -> {SiteUrl, DownUrl}] : n \in 0..MaxArgs},
        f \in {[given |-> FALSE, readable |-> FALSE, lines |-> <<>>]}
              \cup {[given |-> TRUE, readable |-> r, lines |-> l] :
                       r \in BOOLEAN,
                       l \in UNION {[1..n -> FileLines] : n \in 0..MaxLines}},
        c \in 1..MaxConcurrent}

\* main has parsed its command line and has not chosen its URLs yet.
InitMain ==
    /\ cli \in {Some([args |-> a, selected |-> FALSE, reported |-> FALSE]) :
                   a \in CommandLines}
    /\ urls = <<>>
    /\ max_concurrent = 0
    /\ web = Web
    /\ run = 1
    /\ first_results = None
    /\ Idle
    /\ direct = None

\* Lines 112-134: main chooses its URLs and is about to call
\* process_urls(urls, max_concurrent=args.concurrent).
SelectUrls ==
    /\ ~cli.none
    /\ ~cli.val.selected
    /\ LET chosen == select_urls(cli.val.args)
       IN  /\ urls' = chosen.urls
           /\ cli' = Some([cli.val EXCEPT !.selected = TRUE,
                                          !.reported = chosen.reported])
    /\ max_concurrent' = cli.val.args.concurrent
    /\ UNCHANGED <<web, session, task_id, completed, pc, attempts, outcome,
                   task_result, order, results, now, run, first_results, direct,
                   connector, shown>>

\* main, up to the point where process_urls has created its session.
NextMain ==
    \/ SelectUrls
    \/ /\ ~cli.none
       /\ cli.val.selected
       /\ Enter
       /\ UNCHANGED <<direct, shown, cli>>

SpecMain == InitMain /\ [][NextMain]_vars

Returned == session = "closed"

(* ------------------------------------------------------------------ *)
(* Properties                                                          *)
(* ------------------------------------------------------------------ *)
Failed(i) == outcome[i] \in {"status", "error", "timeout"}
InputOrder == [i \in 1..N |-> i]

\* C1: process_urls returns exactly one result per input URL, the i-th being
\* the result for the i-th URL, whatever the order the fetches finished in,
\* successes and failures mixed, duplicates included.
C1_OneResultPerUrlInOrder ==
    Returned =>
        /\ Len(results.val) = Len(urls)
        /\ \A i \in 1..Len(urls) : results.val[i].url = urls[i]

\* A returned batch with a duplicated URL, a success and a failure, whose
\* fetches did not finish in input order.
C1_Witness ==
    /\ Returned
    /\ order # InputOrder
    /\ \E i, j \in 1..N : i < j /\ urls[i] = urls[j]
    /\ \E i, j \in 1..N : outcome[i] = "ok" /\ Failed(j)
    /\ C1_OneResultPerUrlInOrder

\* C2: with a limit C >= 1 never more than C requests are in flight, and a
\* request goes in flight only when fewer than C are: beyond the cap it waits.
C2_ConcurrencyCap ==
    /\ [](max_concurrent >= 1 => InFlight <= max_concurrent)
    /\ [][\A i \in Entries :
            (/\ max_concurrent >= 1
             /\ i \in DOMAIN pc'
             /\ pc[i] # "inflight"
             /\ pc'[i] = "inflight") => InFlight < max_concurrent]_vars

\* The cap is reached while a request waits for a connection.
C2_Witness ==
    /\ max_concurrent >= 1
    /\ InFlight = max_concurrent
    /\ \E i \in Entries : pc[i] = "waiting"

\* What the server of entry j does to a request that reaches it.
OwnFetch(j) == IF web[urls[j]].kind = "hang" THEN TimeoutError ELSE web[urls[j]]

\* C3: the result of every URL is the one its own response gives, whatever
\* happens to the other URLs of the batch: a failure shows in the failed URL's
\* result only.
C3_FailureIsolation ==
    Returned =>
        \A j \in 1..N :
            results.val[j] = extract_page_info(urls[j], fetch_url(OwnFetch(j)))

\* C4: a fetch that ends with a non-200 status, a network error or a timeout
\* gives a result with the requested URL, no title, no description, no links.
C4_FetchFailureShape ==
    \A i \in Entries :
        (pc[i] = "done" /\ Failed(i)) =>
            /\ task_result[i].val.url = urls[i]
            /\ task_result[i].val.title = None
            /\ task_result[i].val.description = None
            /\ task_result[i].val.links = <<>>
            /\ Returned => results.val[i] = task_result[i].val

\* A returned batch in which one fetch ended with a non-200 status or a network
\* error, one timed out in flight and one timed out waiting for a connection.
C4_Witness ==
    /\ Returned
    /\ \E i \in Entries : outcome[i] \in {"status", "error"}
    /\ \E i \in Entries : outcome[i] = "timeout" /\ web[urls[i]].kind = "hang"
    /\ \E i \in Entries : outcome[i] = "timeout" /\ web[urls[i]].kind # "hang"
    /\ C4_FetchFailureShape

\* The string s without its leading and trailing whitespace.
Trimmed(s) ==
    LET keep == {k \in 1..Len(s) : s[k] \notin Whitespace}
    IN  IF keep = {} THEN <<>>
        ELSE SubSeq(s, CHOOSE k \in keep : \A m \in keep : k <= m,
                       CHOOSE k \in keep : \A m \in keep : k >= m)

HasTag(body, tag) == \E n \in 1..Len(body) : body[n].k = "start" /\ body[n].tag = tag
IsDescriptionMeta(token) ==
    /\ token.k = "start"
    /\ token.tag = "meta"
    /\ "name" \in DOMAIN token.attrs
    /\ token.attrs["name"] = Description

\* The title the sentinel rule gives a body: the trimmed text of its first
\* title element, "No title" without one.
ExpectedTitle(body) ==
    IF HasTag(body, "title") THEN Trimmed(soup_title(body).val) ELSE NoTitle

\* The description the sentinel rule gives a body: the trimmed content of its
\* first meta tag named description, "No description" without one.
ExpectedDescription(body) ==
    IF \E n \in 1..Len(body) : IsDescriptionMeta(body[n])
    THEN LET first == CHOOSE n \in 1..Len(body) :
                          /\ IsDescriptionMeta(body[n])
                          /\ \A m \in 1..(n - 1) : ~IsDescriptionMeta(body[m])
         IN  IF "content" \in DOMAIN body[first].attrs
             THEN Trimmed(body[first].attrs["content"])
             ELSE <<>>
    ELSE NoDescription

Is200(i) == web[urls[i]].kind = "response" /\ web[urls[i]].status = StatusOK

\* C5: for a status-200 response, whatever its body, the result's title is the
\* trimmed text of the first title element or "No title", its description the
\* trimmed content of the description meta tag or "No description"; neither is
\* None.
C5_SentinelFallback ==
    \A i \in Entries :
        (pc[i] = "done" /\ outcome[i] = "ok") =>
            /\ task_result[i].val.title = Some(ExpectedTitle(web[urls[i]].body))
            /\ task_result[i].val.description =
                  Some(ExpectedDescription(web[urls[i]].body))

\* C6: the progress task is advanced by one for each URL when its fetch and
\* extract finish, success or failure: as many advances as finished URLs, N
\* when the batch ends.
C6_ProgressSignal ==
    /\ completed = Cardinality({i \in Entries : pc[i] = "done"})
    /\ Returned => completed = Len(urls)

\* scheme://host of the model's page URLs.
Origin == (SiteUrl :> SiteUrl) @@ (DocUrl :> HTTP \o <<"a", ".", "o", "r", "g">>)

\* The hrefs of a page that the filter keeps, resolved, in document order: an
\* href starting with "/" is prefixed with the page's scheme://host, and an
\* href is kept when it then starts with http:// or https://.
KeptLinks(url, body) ==
    LET hrefs == soup_find_all_a_href(body)
        resolved == [n \in 1..Len(hrefs) |->
                        IF hrefs[n] # <<>> /\ hrefs[n][1] = "/"
                        THEN Origin[url] \o hrefs[n]
                        ELSE hrefs[n]]
    IN  SelectSeq(resolved, LAMBDA h :
            \/ Len(h) >= 7 /\ SubSeq(h, 1, 7) = HTTP
            \/ Len(h) >= 8 /\ SubSeq(h, 1, 8) = HTTPS)

IsPrefix(a, b) == Len(a) <= Len(b) /\ a = SubSeq(b, 1, Len(a))

ExampleLinks == <<SiteUrl \o HrefAbout, HrefXPage>>

\* C7: the links of a fetched page are the hrefs the filter keeps, resolved, in
\* document order (all of them when there are at most five); for the page
\* https://site.com with /about, https://x.com/page, mailto:a@b.com and #frag
\* they are exactly https://site.com/about and https://x.com/page.
C7_LinkFiltering ==
    \A i \in Entries :
        (pc[i] = "done" /\ outcome[i] = "ok" /\ web[urls[i]].body # <<>>) =>
            LET body == web[urls[i]].body
                links == task_result[i].val.links
                kept == KeptLinks(urls[i], body)
            IN  /\ IsPrefix(links, kept)
                /\ Len(kept) <= MaxLinks => links = kept
                /\ (urls[i] = SiteUrl
                    /\ soup_find_all_a_href(body)
                         = <<HrefAbout, HrefXPage, HrefMailto, HrefFrag>>)
                   => links = ExampleLinks

\* The example page has been fetched and its two links extracted.
C7_Witness ==
    /\ Returned
    /\ urls = <<SiteUrl>>
    /\ web[SiteUrl] = Response(StatusOK, ExamplePage)
    /\ results.val[1].links = ExampleLinks

\* C8: a result has at most five links: the first min(5, k) of the k links
\* that pass the filter, in their order; of eight valid links the first five.
C8_LinkTruncation ==
    \A i \in Entries :
        pc[i] = "done" =>
            LET links == task_result[i].val.links
                kept == KeptLinks(urls[i], web[urls[i]].body)
            IN  /\ Len(links) <= 5
                /\ (outcome[i] = "ok" /\ web[urls[i]].body # <<>>) =>
                      /\ Len(links) = Min(5, Len(kept))
                      /\ \A n \in 1..Len(links) : links[n] = kept[n]

\* A page with eight valid links has been fetched and five are in its result.
C8_Witness ==
    /\ Returned
    /\ web[urls[1]] = Response(StatusOK, EightLinkPage)
    /\ Len(KeptLinks(urls[1], EightLinkPage)) = 8
    /\ results.val[1].links = SubSeq(KeptLinks(urls[1], EightLinkPage), 1, 5)

\* C9: one session.get is made for every entry of the list, also for those
\* whose fetch fails or times out: none is tried again, none is skipped.
C9_NoRetries ==
    /\ \A i \in Entries : attempts[i] <= 1
    /\ \A i \in Entries : pc[i] # "created" => attempts[i] = 1
    /\ Returned => \A i \in 1..N : attempts[i] = 1

\* A returned batch with a failed fetch and a timed-out one, each tried once.
C9_Witness ==
    /\ Returned
    /\ \E i \in Entries : outcome[i] \in {"status", "error"} /\ attempts[i] = 1
    /\ \E i \in Entries : outcome[i] = "timeout" /\ attempts[i] = 1

\* C10: a second run of process_urls on the same URLs against the same
\* responses returns the list the first run returned, whatever the limits and
\* the orders of the two runs.
C10_Idempotent == (run = 2 /\ Returned) => results = first_results

\* A direct call has returned or raised.
DirectDone == ~direct.none /\ ~direct.val.ret.none
Headless == ~direct.val.has_progress /\ direct.val.tid = None

\* C11: called without a progress reporter (progress=None, task_id=None),
\* extract_page_info raises nothing and returns the record it returns when a
\* reporter is supplied, for every URL and every way the fetch ends.
C11_HeadlessSameResult ==
    (DirectDone /\ Headless) =>
        LET c == direct.val
        IN  /\ ~c.ret.val.raised
            /\ \A t \in TaskIds \ {None} :
                  c.ret.val.value =
                      extract_page_info_call(c.url, c.fetched, TRUE, t).value

\* A headless call has returned the record of a fetched page with a title.
C11_Witness ==
    /\ DirectDone
    /\ Headless
    /\ direct.val.fetched = Response(StatusOK, ExamplePage)
    /\ ~direct.val.ret.val.value.none
    /\ direct.val.ret.val.value.val.title = Some(<<"S", "i", "t", "e">>)

\* The timer of entry i expires in this step.
Expires(i) ==
    /\ i \in DOMAIN outcome
    /\ outcome[i] = "pending"
    /\ i \in DOMAIN outcome'
    /\ outcome'[i] = "timeout"

\* C12: each fetch has a timeout of its own.  In a step in which the timeout
\* of one URL expires, that URL gets the fetch-failure record, and every
\* sibling, in flight or waiting for a connection, stays as it was: it is not
\* ended, it gets no result and no outcome in that step.
C12_TimeoutIndependence ==
    [][\A i \in 1..MaxUrls :
         Expires(i) =>
           /\ task_result'[i] =
                 Some([url |-> urls[i], title |-> None, description |-> None,
                       links |-> <<>>])
           /\ \A j \in DOMAIN pc \ {i} :
                 /\ pc'[j] = pc[j]
                 /\ outcome'[j] = outcome[j]
                 /\ task_result'[j] = task_result[j]]_vars

\* One fetch has timed out while a sibling in flight and a sibling waiting for
\* a connection are both still unfinished.
C12_Witness ==
    \E i, j, k \in Entries :
        /\ outcome[i] = "timeout"
        /\ Failed(i)
        /\ pc[j] = "inflight"
        /\ pc[k] = "waiting"

ReturnedAll ==
    /\ Returned
    /\ \A i \in Entries : pc[i] = "done"
    /\ ~results.none
    /\ Len(results.val) = N

\* Requests are queued while no request is in flight.
QueuedNoneInFlight == InFlight = 0 /\ \E i \in Entries : pc[i] = "waiting"

\* The part of termination that does not depend on who gets a connection:
\* every invocation, once inside the session, ends with every URL completed
\* and a list of N records returned, and a queue with nothing in flight can
\* always move.
EveryUrlCompletes ==
    /\ (session = "open") ~> ReturnedAll
    /\ [](QueuedNoneInFlight => ENABLED <<Next>>_vars)

\* C14: with a limit of at least 1 and a fair event loop, every request that
\* waits for a connection eventually gets one (it leaves the queue only by
\* taking a connection), every URL eventually completes and process_urls
\* eventually returns all N results; the run never deadlocks with requests
\* queued and no request in flight.
C14_Termination ==
    /\ [][max_concurrent >= 1 =>
            \A i \in DOMAIN pc :
               (pc[i] = "waiting" /\ i \in DOMAIN pc') =>
                   pc'[i] \in {"waiting", "inflight"}]_vars
    /\ (max_concurrent >= 1 /\ session = "open") ~> ReturnedAll
    /\ []((max_concurrent >= 1 /\ QueuedNoneInFlight) => ENABLED <<Next>>_vars)

\* Entry i has issued its request: session.get was called for it.
Issued(i) == pc[i] # "created"

\* C15: the pool is created when process_urls starts, with the concurrency
\* cap as its size, and no request is issued before it exists; a fetch that
\* has ended, by a page, another status, an error or a timeout, holds no
\* connection; when process_urls has returned, no connection is held and the
\* pool is closed.
C15_PoolLifecycle ==
    /\ (session = "none") <=> connector.none
    /\ (\E i \in Entries : Issued(i)) => ~connector.none
    /\ ~connector.none =>
          /\ connector.val.limit = max_concurrent
          /\ connector.val.acquired \subseteq Entries
          /\ \A i \in Entries :
                /\ pc[i] = "done" => i \notin connector.val.acquired
                /\ pc[i] = "inflight" <=> i \in connector.val.acquired
          /\ connector.val.closed <=> Returned
    /\ Returned => ~connector.none /\ connector.val.acquired = {}

\* After a batch in which fetches ended with a page, with another status or
\* an error, and with a timeout, each having held a connection, process_urls
\* has returned and the pool is closed.
C15_Witness ==
    /\ Returned
    /\ connector.val.closed
    /\ max_concurrent = 1
    /\ \E i, j, k \in Entries :
          /\ outcome[i] = "ok"
          /\ outcome[j] \in {"status", "error"}
          /\ outcome[k] = "timeout" /\ web[urls[k]].kind = "hang"

\* main has displayed the results of the invocation.
Displayed == Returned /\ ~shown.none

\* C16: in every result of process_urls, title is None exactly when
\* description is None, and then links is empty; so display_results never
\* fails on a list process_urls returned, and prints nothing for a URL whose
\* fetch failed.
C16_DisplayNeverFails ==
    /\ \A i \in Entries :
          ~task_result[i].none =>
             LET r == task_result[i].val
             IN  /\ r.title.none <=> r.description.none
                 /\ r.title.none => r.links = <<>>
    /\ Displayed =>
          /\ ~shown.val.raised
          /\ \A n \in 1..Len(shown.val.printed) : ~Failed(shown.val.printed[n])

\* The part of C16 that is about None: display_results never slices a
\* description that is None, and prints no record of a failed fetch.
DisplaySkipsFailures ==
    Displayed =>
       /\ \A i \in Entries :
             truthy_str(results.val[i].title) => ~results.val[i].description.none
       /\ \A n \in 1..Len(shown.val.printed) : ~Failed(shown.val.printed[n])

\* The lines of the file that are not blank, each without its leading and
\* trailing whitespace, in the order of the file.
NonBlankTrimmed(lines) ==
    LET trimmed == [n \in 1..Len(lines) |-> Trimmed(lines[n])]
    IN  SelectSeq(trimmed, LAMBDA line : line # <<>>)

\* process_urls has been called by main.
Passed == ~cli.none /\ cli.val.selected /\ session = "open"

\* C17: the list main passes to process_urls is the positional URLs followed
\* by the non-blank, stripped lines of the --file file, in that order; the
\* default list of 5 URLs is used exactly when that combined list is empty;
\* a failure to read the file is reported and does not stop the run, which
\* goes on with the positional URLs or, when there are none, the default list.
C17_UrlSelection ==
    (~cli.none /\ cli.val.selected) =>
        LET args == cli.val.args
            failed == args.file.given /\ ~args.file.readable
            combined == IF args.file.given /\ args.file.readable
                        THEN args.urls \o NonBlankTrimmed(args.file.lines)
                        ELSE args.urls
        IN  /\ combined # <<>> => urls = combined
            /\ (urls = DefaultUrls) <=> (combined = <<>>)
            /\ Len(DefaultUrls) = 5
            /\ cli.val.reported <=> failed
            /\ failed => urls = IF args.urls = <<>> THEN DefaultUrls ELSE args.urls
            /\ max_concurrent = args.concurrent
            /\ ENABLED Enter \/ session = "open"

\* process_urls was called with a positional URL followed by the URLs of a
\* file that holds a blank line and a line with whitespace around its URL.
C17_Witness ==
    /\ Passed
    /\ cli.val.args.urls = <<DownUrl>>
    /\ cli.val.args.file.given
    /\ cli.val.args.file.readable
    /\ cli.val.args.file.lines = <<<<" ", "\t", "\n">>, <<" ", " ">> \o SiteUrl \o <<" ", "\r", "\n">>>>
    /\ urls = <<DownUrl, SiteUrl>>

====
